---- MODULE Spec2Model ----
(***************************************************************************)
(* FindMySong backend: the Spotify client-credentials token cache          *)
(* (src/server.js) and the Genius + Spotify search-lyrics aggregation      *)
(* (src/unnamed/part_002).                                                 *)
(*                                                                         *)
(* Time is Date.now() in milliseconds.  Opaque strings handed around by    *)
(* the code (tokens, URLs) are naturals, 0 standing for the falsy values   *)
(* null / undefined / "".  Strings the code inspects (q, titles, artist    *)
(* names) are sequences of one-character strings.                          *)
(***************************************************************************)
EXTENDS Integers, Sequences, FiniteSets, TLC

\* ------------------------------------------------------------------ bounds
NumCallers == 2
MaxCalls == 2
MaxTicks == 3
TickMs == 2000
ExpiresInValues == {1, 8}
MaxSearches == 2
MaxRun == 26
MaxGap == 1
NumRegistrants == 2
MaxUsers == 2
MaxAuthRequests == 3
MaxLikeOps == 3
LikeUsers == {1, 2}
LikeSongs == {51, 52}

\* ------------------------------------------------------- program constants
SafetyMarginMs == 5000
MsPerSecond == 1000
TokenTimeoutMs == 8000

Null == 0
NaN == -1000000
Undefined == <<"undefined">>

Callers == 1..NumCallers
MaxNow == MaxTicks * TickMs

VARIABLES
  now,                 \* Date.now()
  cachedSpotifyToken,  \* module-level cache: token value, Null when unset
  spotifyExpiresAt,    \* module-level cache: expiry in ms, possibly NaN
  pc,                  \* per caller of getSpotifyToken: "idle" | "awaiting"
  call,                \* per caller: record of its current / last invocation
  tokenRequests,       \* POSTs sent to accounts.spotify.com/api/token
  nextToken,           \* next access_token value the provider issues
  callsStarted,        \* invocations of getSpotifyToken so far
  GENIUS_ACCESS_TOKEN, \* process.env.GENIUS_ACCESS_TOKEN is set
  spotifyCredentials,  \* SPOTIFY_CLIENT_ID and SPOTIFY_CLIENT_SECRET are set
  rpc,                 \* search-lyrics handler: "idle" | "genius" | "token"
                       \*   | "spotify" | "sent"
  q,                   \* the trimmed query of the request in progress
  hits,                \* filtered, capped Genius hits of the request
  idx,                 \* position in hits of the iteration in progress
  results,             \* the results array built so far
  lookups,             \* per finished hit: what its catalog lookup met
  sentAt,              \* clock value when the pending upstream call began
  res,                 \* the HTTP response of the request
  reqCalls,            \* upstream calls made on behalf of the request
  rawQuery,            \* req.query.q as received
  geniusOutcome,       \* "none" | "pending" | "failed" | "malformed"
                       \*   | "answered": how the Genius call ended
  spc,                 \* /api/spotify/search handler: "idle" | "token"
                       \*   | "search" | "sent"
  ssRawQuery,          \* its req.query.q as received
  ssQuery,             \* its trimmed q
  ssToken,             \* the token getSpotifyToken returned to it
  ssEntryNow,          \* the clock its getSpotifyToken call read at entry
  ssSentAt,            \* clock value when its pending upstream call began
  ssRes,               \* its HTTP response
  ssCalls,             \* upstream calls made on behalf of the request
  ssOutcome,           \* how its token exchange and its search ended
  ssDelivered,         \* r.data.tracks.items of the catalog's answer
  searchesStarted,     \* requests to /api/spotify/search so far
  fpc,                 \* hit filter on its own: "idle" | "input" | "done"
  rawHits,             \* geniusResp.data.response.hits handed to the filter
  cappedHits,          \* what .filter(...).slice(0, 25) made of rawHits
  selPc,               \* track selection on its own: "idle" | "input"
                       \*   | "done"
  selItems,            \* spResp.data.tracks.items handed to the selection
  selHint,             \* the q the selection matches against
  selTrack,            \* the track it chose, <<>> when undefined
  usuarios,            \* rows of table usuarios, in insertion order
  usuariosUnique,      \* whether the schema declares usuarios.email unique
  JWT_SECRET,          \* process.env.JWT_SECRET, Null when unset
  authReq,             \* the last login or /me request
  authRes,             \* its HTTP response
  issued,              \* the token of the last successful login
  regPc,               \* each register request: "idle" | "check"
                       \*   | "insert" | "sent"
  regReq,              \* its req.body
  regRes,              \* its HTTP response
  curtidas,            \* rows of table curtidas, per (usuario_id, spotify_id)
  curtidasKey,         \* whether the schema has a unique index on
                       \*   curtidas (usuario_id, spotify_id)
  likeOp               \* the last like or unlike request and its status

cacheVars == <<cachedSpotifyToken, spotifyExpiresAt>>

callerVars == <<pc, call, callsStarted>>

lyricsVars == <<GENIUS_ACCESS_TOKEN, spotifyCredentials, rpc, q, hits, idx,
                results, lookups, sentAt, res, reqCalls, rawQuery,
                geniusOutcome>>

searchVars == <<spc, ssRawQuery, ssQuery, ssToken, ssEntryNow, ssSentAt,
                ssRes, ssCalls, ssOutcome, ssDelivered, searchesStarted>>

filterVars == <<fpc, rawHits, cappedHits>>

selectVars == <<selPc, selItems, selHint, selTrack>>

pureVars == <<filterVars, selectVars>>

userVars == <<usuarios, usuariosUnique>>

authVars == <<JWT_SECRET, authReq, authRes, issued>>

regVars == <<regPc, regReq, regRes>>

likeVars == <<curtidas, curtidasKey, likeOp>>

dbVars == <<userVars, authVars, regVars, likeVars>>

extraVars == <<searchVars, pureVars, dbVars>>

vars == <<now, cachedSpotifyToken, spotifyExpiresAt, pc, call,
          tokenRequests, nextToken, callsStarted, GENIUS_ACCESS_TOKEN,
          spotifyCredentials, rpc, q, hits, idx, results, lookups, sentAt,
          res, reqCalls, rawQuery, geniusOutcome, extraVars>>

\* ------------------------------------------------- JavaScript arithmetic
Truthy(v) == v # Null

\* a < b on JS numbers: false as soon as one side is NaN
Lt(a, b) == a # NaN /\ b # NaN /\ a < b

Minus(a, b) == IF a = NaN \/ b = NaN THEN NaN ELSE a - b

\* routes/spotify.js line 28: now + (expires_in - 60) * 1000
ExpiryOf_minuteEarly(entryNow, expires_in) ==
  IF expires_in = NaN THEN NaN
  ELSE entryNow + (expires_in - 60) * MsPerSecond

\* now + expires_in * 1000; an absent expires_in is undefined, which the
\* multiplication turns into NaN, so the input set carries it as NaN
ExpiryOf(entryNow, expires_in) ==
  IF expires_in = NaN THEN NaN ELSE entryNow + expires_in * MsPerSecond

\* ---------------------------------------------- getSpotifyToken (server.js)
\* the comparison of line 144 turned around
CacheHit_reversed(t) ==
  Truthy(cachedSpotifyToken) /\ Lt(Minus(spotifyExpiresAt, SafetyMarginMs), t)

CacheHit(t) ==
  Truthy(cachedSpotifyToken) /\ Lt(t, Minus(spotifyExpiresAt, SafetyMarginMs))

\* the credential is still valid at time t: a token is stored and t lies
\* before its expiry minus the safety margin
StillValid(t) ==
  /\ cachedSpotifyToken # Null
  /\ spotifyExpiresAt # NaN
  /\ t < spotifyExpiresAt - SafetyMarginMs

NoCall ==
  [status |-> "none", entryNow |-> 0, sent |-> 0, value |-> Null,
   issued |-> Null, validAtEntry |-> FALSE, cachedAtEntry |-> Null,
   freshAtReturn |-> FALSE, afterFailure |-> FALSE, expires_in |-> NaN]

NoResponse == [status |-> 0, kind |-> "none", body |-> <<>>]

NoExchange == -1

\* first: what the first token exchange of the request granted, NoExchange
\* before it ended, Null when it was rejected, else the expiry it stored
NoCalls ==
  [genius |-> 0, token |-> 0, spotify |-> 0, pending |-> 0,
   first |-> NoExchange]

\* the awaited upstream call resolved or rejected
Settled(calls) == [calls EXCEPT !.pending = 0]

\* the handler runs again while it awaited the token exchange only when
\* getSpotifyToken threw: a first exchange is then noted as rejected
Rejected(calls) ==
  IF rpc = "token" /\ calls.first = NoExchange
  THEN [calls EXCEPT !.first = Null] ELSE calls

NoSearchCalls == [token |-> 0, search |-> 0]

NoOutcome == [token |-> "none", search |-> "none"]

SearchIdle ==
  /\ spc = "idle"
  /\ ssRawQuery = Undefined
  /\ ssQuery = <<>>
  /\ ssToken = Null
  /\ ssEntryNow = 0
  /\ ssSentAt = 0
  /\ ssRes = NoResponse
  /\ ssCalls = NoSearchCalls
  /\ ssOutcome = NoOutcome
  /\ ssDelivered = <<>>
  /\ searchesStarted = 0

FilterIdle ==
  /\ fpc = "idle"
  /\ rawHits = <<>>
  /\ cappedHits = <<>>

SelectIdle ==
  /\ selPc = "idle"
  /\ selItems = <<>>
  /\ selHint = <<>>
  /\ selTrack = <<>>

Registrants == 1..NumRegistrants

NoToken == [id |-> 0, email |-> <<>>, key |-> 0]

NoAuthRequest ==
  [op |-> "none", email |-> <<>>, senha |-> Null, token |-> NoToken,
   dbOk |-> TRUE, n |-> 0]

NoAuthResponse == [status |-> 0, token |-> NoToken, body |-> Null]

NoRegistration ==
  [nome |-> Null, email |-> <<>>, senha |-> Null, dbOk |-> TRUE]

NoRegResponse == [status |-> 0, body |-> Null]

NoLikeOp ==
  [op |-> "none", usuario_id |-> 0, spotify_id |-> 0, titulo |-> 0,
   status |-> 0, n |-> 0]

UsersIdle ==
  /\ usuarios = <<>>
  /\ usuariosUnique = TRUE

AuthIdle ==
  /\ JWT_SECRET = Null
  /\ authReq = NoAuthRequest
  /\ authRes = NoAuthResponse
  /\ issued = NoToken

RegIdle ==
  /\ regPc = [p \in Registrants |-> "idle"]
  /\ regReq = [p \in Registrants |-> NoRegistration]
  /\ regRes = [p \in Registrants |-> NoRegResponse]

LikesIdle ==
  /\ curtidas = [pair \in LikeUsers \X LikeSongs |-> <<>>]
  /\ curtidasKey = TRUE
  /\ likeOp = NoLikeOp

DbIdle ==
  /\ UsersIdle
  /\ AuthIdle
  /\ RegIdle
  /\ LikesIdle

ExtraIdle ==
  /\ SearchIdle
  /\ FilterIdle
  /\ SelectIdle
  /\ DbIdle

LyricsIdle ==
  /\ rpc = "idle"
  /\ q = <<>>
  /\ hits = <<>>
  /\ idx = 0
  /\ results = <<>>
  /\ lookups = <<>>
  /\ sentAt = 0
  /\ res = NoResponse
  /\ reqCalls = NoCalls
  /\ rawQuery = Undefined
  /\ geniusOutcome = "none"

Init ==
  /\ now = 0
  /\ cachedSpotifyToken = Null
  /\ spotifyExpiresAt = 0
  /\ pc = [p \in Callers |-> "idle"]
  /\ call = [p \in Callers |-> NoCall]
  /\ tokenRequests = 0
  /\ nextToken = 1
  /\ callsStarted = 0
  /\ GENIUS_ACCESS_TOKEN = TRUE
  /\ spotifyCredentials = TRUE
  /\ LyricsIdle
  /\ ExtraIdle

\* lines 143-145: read the clock, answer from the cache when it is valid;
\* lines 147-162: otherwise POST the client-credentials exchange and await
getSpotifyTokenEnter(p) ==
  /\ pc[p] = "idle"
  /\ callsStarted < MaxCalls
  /\ callsStarted' = callsStarted + 1
  /\ LET entry == [NoCall EXCEPT !.entryNow = now,
                                 !.validAtEntry = StillValid(now),
                                 !.cachedAtEntry = cachedSpotifyToken,
                                 !.afterFailure =
                                     \E o \in Callers :
                                       call[o].status = "threw"]
     IN IF CacheHit(now)
        THEN /\ call' = [call EXCEPT ![p] =
                   [entry EXCEPT !.status = "returned",
                                 !.value = cachedSpotifyToken,
                                 !.freshAtReturn =
                                     Lt(now, spotifyExpiresAt)]]
             /\ UNCHANGED <<pc, tokenRequests>>
        ELSE /\ call' = [call EXCEPT ![p] =
                   [entry EXCEPT !.status = "pending", !.sent = 1]]
             /\ pc' = [pc EXCEPT ![p] = "awaiting"]
             /\ tokenRequests' = tokenRequests + 1
  /\ UNCHANGED <<now, cachedSpotifyToken, spotifyExpiresAt, nextToken>>
  /\ UNCHANGED lyricsVars
  /\ UNCHANGED extraVars

\* line 167 returning the value read before line 164 overwrote it
StoreToken_stale(p, access_token, expires_in) ==
  /\ cachedSpotifyToken' = access_token
  /\ spotifyExpiresAt' = ExpiryOf(call[p].entryNow, expires_in)
  /\ call' = [call EXCEPT ![p] =
        [@ EXCEPT !.status = "returned",
                  !.value = cachedSpotifyToken,
                  !.issued = access_token,
                  !.expires_in = expires_in,
                  !.freshAtReturn =
                      Lt(now, ExpiryOf(call[p].entryNow, expires_in))]]

\* lines 164-167: a 2xx answer arrived before the 8000 ms timeout; the body
\* carries access_token (possibly absent) and expires_in (possibly absent)
StoreToken(p, access_token, expires_in) ==
  /\ cachedSpotifyToken' = access_token
  /\ spotifyExpiresAt' = ExpiryOf(call[p].entryNow, expires_in)
  /\ call' = [call EXCEPT ![p] =
        [@ EXCEPT !.status = "returned",
                  !.value = access_token,
                  !.issued = access_token,
                  !.expires_in = expires_in,
                  !.freshAtReturn =
                      Lt(now, ExpiryOf(call[p].entryNow, expires_in))]]

\* an await between lines 164 and 165: the token is written in this step,
\* the expiry in a later one
getSpotifyTokenResponse_split(p, hasToken, expires_in) ==
  /\ pc[p] = "awaiting"
  /\ now - call[p].entryNow < TokenTimeoutMs
  /\ LET access_token == IF hasToken THEN nextToken ELSE Null
     IN /\ cachedSpotifyToken' = access_token
        /\ UNCHANGED spotifyExpiresAt
        /\ call' = [call EXCEPT ![p] =
              [@ EXCEPT !.status = "returned",
                        !.value = access_token,
                        !.issued = access_token,
                        !.expires_in = expires_in]]
  /\ nextToken' = IF hasToken THEN nextToken + 1 ELSE nextToken
  /\ pc' = [pc EXCEPT ![p] = "idle"]
  /\ UNCHANGED <<now, tokenRequests, callsStarted>>
  /\ UNCHANGED lyricsVars
  /\ UNCHANGED extraVars

getSpotifyTokenResponse(p, hasToken, expires_in) ==
  /\ pc[p] = "awaiting"
  /\ now - call[p].entryNow < TokenTimeoutMs
  /\ LET access_token == IF hasToken THEN nextToken ELSE Null
     IN StoreToken(p, access_token, expires_in)
  /\ nextToken' = IF hasToken THEN nextToken + 1 ELSE nextToken
  /\ pc' = [pc EXCEPT ![p] = "idle"]
  /\ UNCHANGED <<now, tokenRequests, callsStarted>>
  /\ UNCHANGED lyricsVars
  /\ UNCHANGED extraVars

\* a rejected exchange sent again inside the same invocation
getSpotifyTokenFailure_retry(p) ==
  /\ pc[p] = "awaiting"
  /\ call[p].sent < 3
  /\ call' = [call EXCEPT ![p] = [@ EXCEPT !.sent = @ + 1]]
  /\ tokenRequests' = tokenRequests + 1
  /\ UNCHANGED <<now, cachedSpotifyToken, spotifyExpiresAt, pc, nextToken,
                 callsStarted>>
  /\ UNCHANGED lyricsVars
  /\ UNCHANGED extraVars

\* line 152: axios.post rejects (network error, timeout, non-2xx status);
\* the exception leaves getSpotifyToken before lines 164-165
getSpotifyTokenFailure(p) ==
  /\ pc[p] = "awaiting"
  /\ call' = [call EXCEPT ![p] = [@ EXCEPT !.status = "threw"]]
  /\ pc' = [pc EXCEPT ![p] = "idle"]
  /\ UNCHANGED <<now, cachedSpotifyToken, spotifyExpiresAt, tokenRequests,
                 nextToken, callsStarted>>
  /\ UNCHANGED lyricsVars
  /\ UNCHANGED extraVars

Tick ==
  /\ now + TickMs <= MaxNow
  /\ now' = now + TickMs
  /\ UNCHANGED <<cachedSpotifyToken, spotifyExpiresAt, pc, call,
                 tokenRequests, nextToken, callsStarted>>
  /\ UNCHANGED lyricsVars
  /\ UNCHANGED extraVars

Next ==
  \/ \E p \in Callers : getSpotifyTokenEnter(p)
  \/ \E p \in Callers, hasToken \in BOOLEAN,
        e \in ExpiresInValues \cup {NaN} :
        getSpotifyTokenResponse(p, hasToken, e)
  \/ \E p \in Callers : getSpotifyTokenFailure(p)
  \/ Tick

Spec == Init /\ [][Next]_vars

\* =================================================== search-lyrics pipeline
\* ------------------------------------------------------------ JS strings
IsWhitespace(c) == c = " "

LowerChar(c) == IF c = "L" THEN "l" ELSE c

toLowerCase(s) == [k \in 1..Len(s) |-> LowerChar(s[k])]

\* String.prototype.includes
includes(s, sub) ==
  \E k \in 0..(Len(s) - Len(sub)) : SubSeq(s, k + 1, k + Len(sub)) = sub

RECURSIVE trimStart(_)
trimStart(s) ==
  IF s # <<>> /\ IsWhitespace(Head(s)) THEN trimStart(Tail(s)) ELSE s

RECURSIVE trimEnd(_)
trimEnd(s) ==
  IF s # <<>> /\ IsWhitespace(s[Len(s)])
  THEN trimEnd(SubSeq(s, 1, Len(s) - 1)) ELSE s

\* q taken without .trim()
trim_none(s) == s

trim(s) == trimEnd(trimStart(s))

\* Array.prototype.join(" ")
RECURSIVE join(_)
join(parts) ==
  IF parts = <<>> THEN <<>>
  ELSE IF Len(parts) = 1 THEN parts[1]
  ELSE parts[1] \o <<" ">> \o join(Tail(parts))

\* Array.prototype.slice(0, n)
slice(s, n) == SubSeq(s, 1, IF Len(s) < n THEN Len(s) ELSE n)

\* unshift in place of push
push_front(arr, e) == <<e>> \o arr

\* Array.prototype.push
push(arr, e) == Append(arr, e)

\* a || null on an opaque value
OrNull(v) == IF Truthy(v) THEN v ELSE Null

\* ------------------------------------------------------------- the inputs
MaxLyricsTicks == 4
MaxHits == 3
MaxItems == 2

MaxResults == 25
GeniusTimeoutMs == 9000
SearchTimeoutMs == 8000

QueryValues == {Undefined, <<>>, <<" ">>, <<" ", " ">>, <<" ", "l", " ">>}

\* Genius hits: h.result of the search response
HitPool ==
  { [title |-> <<"L", "o">>, artist |-> <<"a">>, url |-> 1, image |-> 41],
    [title |-> <<"L", "o">>, artist |-> Undefined, url |-> 2, image |-> 0],
    [title |-> <<"x">>, artist |-> <<"L">>, url |-> 3, image |-> 43],
    [title |-> <<"x">>, artist |-> <<"y">>, url |-> 5, image |-> 45],
    [title |-> Undefined, artist |-> <<"l">>, url |-> 6, image |-> 0] }

\* Spotify tracks: items of the track search response
TrackPool ==
  { [name |-> <<"L">>, artists |-> << <<"a">> >>, url |-> 11,
     preview_url |-> 21, image |-> 31],
    [name |-> <<"x">>, artists |-> << <<"y">>, <<"z">> >>, url |-> 12,
     preview_url |-> 0, image |-> 0] }

Injective(s) == \A a, b \in DOMAIN s : s[a] = s[b] => a = b

SeqsUpTo(S, n) ==
  { s \in UNION {[1..k -> S] : k \in 0..n} : Injective(s) }

\* the lookups do not depend on which hit they serve, so one order of each
\* selection of hits stands for all its orders
Ascending(s) == \A a, b \in DOMAIN s : a < b => s[a].url < s[b].url

GeniusBodies == { s \in SeqsUpTo(HitPool, MaxHits) : Ascending(s) }

ItemLists == SeqsUpTo(TrackPool, MaxItems)

\* ----------------------------------------------------- part_002:280-289
\* h.result.title.toLowerCase() throws when a hit carries no title
Malformed(h) == h.title = Undefined

\* part_001 lines 205-212: no relevance filter
HitMatches_all(h, query) == TRUE

HitMatches(h, query) ==
  LET title == toLowerCase(h.title)
      artist == IF h.artist = Undefined THEN <<>> ELSE toLowerCase(h.artist)
      search == toLowerCase(query)
  IN includes(title, search) \/ includes(artist, search)

\* allHits.filter(...) of lines 282-288
RECURSIVE filter(_, _)
filter(allHits, query) ==
  IF allHits = <<>> THEN <<>>
  ELSE IF HitMatches(Head(allHits), query)
  THEN <<Head(allHits)>> \o filter(Tail(allHits), query)
  ELSE filter(Tail(allHits), query)

\* part_001 line 211: the cap taken on the raw hits
FilterHits_capFirst(hs, query) == filter(slice(hs, MaxResults), query)

FilterHits(hs, query) == slice(filter(hs, query), MaxResults)

\* ----------------------------------------------------- part_002:299-306
Base(hit) ==
  [title |-> hit.title, artist |-> hit.artist, genius_url |-> hit.url,
   spotify_url |-> Null, preview_url |-> Null, image |-> OrNull(hit.image)]

\* ----------------------------------------------------- part_002:320-326
TrackMatches(t, query) ==
  LET name == toLowerCase(t.name)
      arts == join([k \in 1..Len(t.artists) |-> toLowerCase(t.artists[k])])
      s == toLowerCase(query)
  IN includes(name, s) \/ includes(arts, s)

\* the found track as a one-element sequence, <<>> for undefined
SelectTrack(items, query) ==
  LET found == { k \in 1..Len(items) : TrackMatches(items[k], query) }
  IN IF found # {}
     THEN <<items[CHOOSE k \in found : \A m \in found : k <= m]>>
     ELSE IF items # <<>> THEN <<items[1]>> ELSE <<>>

\* ----------------------------------------------------- part_002:328-333
Merge(base, track) ==
  IF track = <<>> THEN base
  ELSE [base EXCEPT !.spotify_url = OrNull(track[1].url),
                    !.preview_url = OrNull(track[1].preview_url),
                    !.image = IF Truthy(track[1].image)
                              THEN track[1].image ELSE base.image]

Failed == [failed |-> TRUE, items |-> <<>>]

Answered(items) == [failed |-> FALSE, items |-> items]

\* ----------------------------------------------------------- the handler
Respond(status, kind, body) ==
  /\ res' = [status |-> status, kind |-> kind, body |-> body]
  /\ rpc' = "sent"

\* the lookups of all remaining hits started together (hits.map with
\* Promise.all) instead of one awaited per iteration
Continue_allAtOnce(hs, rs, lks, k) ==
  /\ hits' = hs
  /\ UNCHANGED <<cachedSpotifyToken, spotifyExpiresAt, nextToken>>
  /\ IF k > Len(hs)
     THEN /\ Respond(200, "array", rs)
          /\ results' = rs
          /\ lookups' = lks
          /\ idx' = k
          /\ reqCalls' = Settled(Rejected(reqCalls))
          /\ UNCHANGED <<sentAt, tokenRequests>>
     ELSE IF CacheHit(now)
     THEN /\ rpc' = "spotify"
          /\ results' = rs
          /\ lookups' = lks
          /\ idx' = k
          /\ sentAt' = now
          /\ reqCalls' = [Rejected(reqCalls) EXCEPT !.spotify = @ + 1,
                                                    !.pending = 1]
          /\ UNCHANGED <<res, tokenRequests>>
     ELSE IF ~spotifyCredentials
     THEN /\ Respond(200, "array",
                     rs \o [m \in 1..(Len(hs) - k + 1) |-> Base(hs[k + m - 1])])
          /\ results' = rs \o [m \in 1..(Len(hs) - k + 1) |-> Base(hs[k + m - 1])]
          /\ lookups' = lks \o [m \in 1..(Len(hs) - k + 1) |-> Failed]
          /\ idx' = Len(hs) + 1
          /\ reqCalls' = Settled(Rejected(reqCalls))
          /\ UNCHANGED <<sentAt, tokenRequests>>
     ELSE /\ rpc' = "token"
          /\ results' = rs
          /\ lookups' = lks
          /\ idx' = k
          /\ sentAt' = now
          /\ reqCalls' = [Rejected(reqCalls) EXCEPT
                            !.token = @ + Len(hs) - k + 1,
                            !.pending = Len(hs) - k + 1]
          /\ tokenRequests' = tokenRequests + Len(hs) - k + 1
          /\ UNCHANGED res

\* The handler between two awaited upstream calls: results and lookups hold
\* the entries pushed so far, k is the next position of the for-of loop.
\* Past the last hit it answers (line 340); otherwise it enters
\* getSpotifyToken (lines 162-189) and either goes on to the Spotify search
\* with the cached token, or throws for missing credentials on this and
\* every later hit, or posts the token exchange.
Continue(hs, rs, lks, k) ==
  /\ hits' = hs
  /\ UNCHANGED <<cachedSpotifyToken, spotifyExpiresAt, nextToken>>
  /\ IF k > Len(hs)
     THEN /\ Respond(200, "array", rs)
          /\ results' = rs
          /\ lookups' = lks
          /\ idx' = k
          /\ reqCalls' = Settled(Rejected(reqCalls))
          /\ UNCHANGED <<sentAt, tokenRequests>>
     ELSE IF CacheHit(now)
     THEN /\ rpc' = "spotify"
          /\ results' = rs
          /\ lookups' = lks
          /\ idx' = k
          /\ sentAt' = now
          /\ reqCalls' = [Rejected(reqCalls) EXCEPT !.spotify = @ + 1,
                                                    !.pending = 1]
          /\ UNCHANGED <<res, tokenRequests>>
     ELSE IF ~spotifyCredentials
     THEN /\ Respond(200, "array",
                     rs \o [m \in 1..(Len(hs) - k + 1) |-> Base(hs[k + m - 1])])
          /\ results' = rs \o [m \in 1..(Len(hs) - k + 1) |-> Base(hs[k + m - 1])]
          /\ lookups' = lks \o [m \in 1..(Len(hs) - k + 1) |-> Failed]
          /\ idx' = Len(hs) + 1
          /\ reqCalls' = Settled(Rejected(reqCalls))
          /\ UNCHANGED <<sentAt, tokenRequests>>
     ELSE /\ rpc' = "token"
          /\ results' = rs
          /\ lookups' = lks
          /\ idx' = k
          /\ sentAt' = now
          /\ reqCalls' = [Rejected(reqCalls) EXCEPT !.token = @ + 1,
                                                    !.pending = 1]
          /\ tokenRequests' = tokenRequests + 1
          /\ UNCHANGED res

\* line 270: the Genius credential is absent from the environment
MissingGeniusKey_never == FALSE

MissingGeniusKey == ~GENIUS_ACCESS_TOKEN

\* part_004 lines 213-220: the Spotify side called first
SearchLyricsRequest_spotifyFirst(rawq) ==
  /\ rpc = "idle"
  /\ LET query == trim(IF rawq = Undefined THEN <<>> ELSE rawq)
     IN /\ q' = query
        /\ rawQuery' = rawq
        /\ IF query = <<>>
           THEN /\ Respond(400, "message", <<>>)
                /\ reqCalls' = NoCalls
                /\ geniusOutcome' = "none"
                /\ UNCHANGED sentAt
           ELSE IF MissingGeniusKey
           THEN /\ Respond(500, "message", <<>>)
                /\ reqCalls' = NoCalls
                /\ geniusOutcome' = "none"
                /\ UNCHANGED sentAt
           ELSE /\ rpc' = "spotify"
                /\ res' = NoResponse
                /\ reqCalls' = [NoCalls EXCEPT !.spotify = 1, !.pending = 1]
                /\ geniusOutcome' = "pending"
                /\ sentAt' = now
  /\ hits' = <<>>
  /\ idx' = 0
  /\ results' = <<>>
  /\ lookups' = <<>>
  /\ UNCHANGED <<now, cachedSpotifyToken, spotifyExpiresAt, tokenRequests,
                 nextToken, GENIUS_ACCESS_TOKEN, spotifyCredentials>>
  /\ UNCHANGED callerVars
  /\ UNCHANGED extraVars

\* lines 266-278
SearchLyricsRequest(rawq) ==
  /\ rpc = "idle"
  /\ LET query == trim(IF rawq = Undefined THEN <<>> ELSE rawq)
     IN /\ q' = query
        /\ rawQuery' = rawq
        /\ IF query = <<>>
           THEN /\ Respond(400, "message", <<>>)
                /\ reqCalls' = NoCalls
                /\ geniusOutcome' = "none"
                /\ UNCHANGED sentAt
           ELSE IF MissingGeniusKey
           THEN /\ Respond(500, "message", <<>>)
                /\ reqCalls' = NoCalls
                /\ geniusOutcome' = "none"
                /\ UNCHANGED sentAt
           ELSE /\ rpc' = "genius"
                /\ res' = NoResponse
                /\ reqCalls' = [NoCalls EXCEPT !.genius = 1, !.pending = 1]
                /\ geniusOutcome' = "pending"
                /\ sentAt' = now
  /\ hits' = <<>>
  /\ idx' = 0
  /\ results' = <<>>
  /\ lookups' = <<>>
  /\ UNCHANGED <<now, cachedSpotifyToken, spotifyExpiresAt, tokenRequests,
                 nextToken, GENIUS_ACCESS_TOKEN, spotifyCredentials>>
  /\ UNCHANGED callerVars
  /\ UNCHANGED extraVars

\* the response sent as soon as Genius answered, the first lookup started
\* without being awaited
GeniusResponse_detached(hasHits, body) ==
  /\ rpc = "genius"
  /\ now - sentAt < GeniusTimeoutMs
  /\ Respond(200, "array", <<>>)
  /\ geniusOutcome' = "answered"
  /\ reqCalls' = [reqCalls EXCEPT !.token = @ + 1, !.pending = 1]
  /\ UNCHANGED <<hits, idx, results, lookups, sentAt, cachedSpotifyToken,
                 spotifyExpiresAt, tokenRequests, nextToken>>
  /\ UNCHANGED <<now, q, GENIUS_ACCESS_TOKEN, spotifyCredentials, rawQuery>>
  /\ UNCHANGED callerVars
  /\ UNCHANGED extraVars

\* lines 280-291: the Genius answer arrived within its 9000 ms timeout; body
\* is data.response.hits, which hasHits tells to be present
GeniusResponse(hasHits, body) ==
  /\ rpc = "genius"
  /\ now - sentAt < GeniusTimeoutMs
  /\ LET allHits == IF hasHits THEN body ELSE <<>>
     IN IF \E k \in 1..Len(allHits) : Malformed(allHits[k])
        THEN /\ Respond(200, "array", <<>>)
             /\ geniusOutcome' = "malformed"
             /\ reqCalls' = Settled(reqCalls)
             /\ UNCHANGED <<hits, idx, results, lookups, sentAt,
                            cachedSpotifyToken, spotifyExpiresAt,
                            tokenRequests, nextToken>>
        ELSE /\ Continue(FilterHits(allHits, q), <<>>, <<>>, 1)
             /\ geniusOutcome' = "answered"
  /\ UNCHANGED <<now, q, GENIUS_ACCESS_TOKEN, spotifyCredentials, rawQuery>>
  /\ UNCHANGED callerVars
  /\ UNCHANGED extraVars

\* the outer catch answering 500 as the catalog search handler does
GeniusFailure_error ==
  /\ rpc = "genius"
  /\ Respond(500, "message", <<>>)
  /\ geniusOutcome' = "failed"
  /\ UNCHANGED <<now, cachedSpotifyToken, spotifyExpiresAt, tokenRequests,
                 nextToken, GENIUS_ACCESS_TOKEN, spotifyCredentials, q, hits,
                 idx, results, lookups, sentAt, rawQuery>>
  /\ reqCalls' = Settled(reqCalls)
  /\ UNCHANGED callerVars
  /\ UNCHANGED extraVars

\* lines 341-344: axios.get on Genius rejected
GeniusFailure ==
  /\ rpc = "genius"
  /\ Respond(200, "array", <<>>)
  /\ geniusOutcome' = "failed"
  /\ UNCHANGED <<now, cachedSpotifyToken, spotifyExpiresAt, tokenRequests,
                 nextToken, GENIUS_ACCESS_TOKEN, spotifyCredentials, q, hits,
                 idx, results, lookups, sentAt, rawQuery>>
  /\ reqCalls' = Settled(reqCalls)
  /\ UNCHANGED callerVars
  /\ UNCHANGED extraVars

\* a catch that only logs: the failed hit leaves no entry
PushBase_skip ==
  Continue(hits, results, Append(lookups, Failed), idx + 1)

\* push(base) of the catch at lines 334-337, then the loop goes on
PushBase ==
  Continue(hits, push(results, Base(hits[idx])), Append(lookups, Failed),
           idx + 1)

\* lines 195-196 left out: the token is returned without being stored
LyricsTokenResponse_notStored(expires_in) ==
  /\ rpc = "token"
  /\ now - sentAt < TokenTimeoutMs
  /\ UNCHANGED <<cachedSpotifyToken, spotifyExpiresAt>>
  /\ nextToken' = nextToken + 1
  /\ rpc' = "spotify"
  /\ sentAt' = now
  /\ reqCalls' = [reqCalls EXCEPT
       !.spotify = @ + 1,
       !.pending = 1,
       !.first = IF @ = NoExchange THEN ExpiryOf(sentAt, expires_in) ELSE @]
  /\ UNCHANGED <<now, tokenRequests, GENIUS_ACCESS_TOKEN, spotifyCredentials,
                 q, hits, idx, results, lookups, res, rawQuery,
                 geniusOutcome>>
  /\ UNCHANGED callerVars
  /\ UNCHANGED extraVars

\* getSpotifyToken lines 191-200 with an access_token, then the Spotify
\* search of lines 310-318 is sent
LyricsTokenResponse(expires_in) ==
  /\ rpc = "token"
  /\ now - sentAt < TokenTimeoutMs
  /\ cachedSpotifyToken' = nextToken
  /\ spotifyExpiresAt' = ExpiryOf(sentAt, expires_in)
  /\ nextToken' = nextToken + 1
  /\ rpc' = "spotify"
  /\ sentAt' = now
  /\ reqCalls' = [reqCalls EXCEPT
       !.spotify = @ + 1,
       !.pending = 1,
       !.first = IF @ = NoExchange THEN ExpiryOf(sentAt, expires_in) ELSE @]
  /\ UNCHANGED <<now, tokenRequests, GENIUS_ACCESS_TOKEN, spotifyCredentials,
                 q, hits, idx, results, lookups, res, rawQuery,
                 geniusOutcome>>
  /\ UNCHANGED callerVars
  /\ UNCHANGED extraVars

\* getSpotifyToken throws: axios.post rejected (line 179) or the body has no
\* access_token (lines 191-194); the catch of the hit pushes base
LyricsTokenFailure_abort ==
  /\ rpc = "token"
  /\ Respond(500, "message", <<>>)
  /\ reqCalls' = Settled(reqCalls)
  /\ UNCHANGED <<hits, idx, results, lookups, sentAt, cacheVars,
                 tokenRequests, nextToken>>
  /\ UNCHANGED <<now, q, GENIUS_ACCESS_TOKEN, spotifyCredentials, rawQuery,
                 geniusOutcome>>
  /\ UNCHANGED callerVars
  /\ UNCHANGED extraVars

LyricsTokenFailure ==
  /\ rpc = "token"
  /\ PushBase
  /\ UNCHANGED <<now, q, GENIUS_ACCESS_TOKEN, spotifyCredentials, rawQuery,
                 geniusOutcome>>
  /\ UNCHANGED callerVars
  /\ UNCHANGED extraVars

\* the track of the previous iteration merged into this hit's entry
SpotifyResponse_previousTrack(items) ==
  /\ rpc = "spotify"
  /\ now - sentAt < SearchTimeoutMs
  /\ LET used == IF idx > 1 /\ ~lookups[idx - 1].failed
                 THEN lookups[idx - 1].items ELSE items
     IN Continue(hits,
                 push(results, Merge(Base(hits[idx]), SelectTrack(used, q))),
                 Append(lookups, Answered(items)),
                 idx + 1)
  /\ UNCHANGED <<now, q, GENIUS_ACCESS_TOKEN, spotifyCredentials, rawQuery,
                 geniusOutcome>>
  /\ UNCHANGED callerVars
  /\ UNCHANGED extraVars

\* lines 320-333: the Spotify search answered with tracks.items
SpotifyResponse(items) ==
  /\ rpc = "spotify"
  /\ now - sentAt < SearchTimeoutMs
  /\ Continue(hits,
              push(results, Merge(Base(hits[idx]), SelectTrack(items, q))),
              Append(lookups, Answered(items)),
              idx + 1)
  /\ UNCHANGED <<now, q, GENIUS_ACCESS_TOKEN, spotifyCredentials, rawQuery,
                 geniusOutcome>>
  /\ UNCHANGED callerVars
  /\ UNCHANGED extraVars

\* part_001 lines 231-234: the search carries no timeout, so a silent
\* catalog never rejects the awaited call
SpotifyFailure_noTimeout ==
  /\ rpc = "spotify"
  /\ FALSE
  /\ UNCHANGED vars

\* lines 334-337: the Spotify search rejected, or its body was malformed
SpotifyFailure ==
  /\ rpc = "spotify"
  /\ PushBase
  /\ UNCHANGED <<now, q, GENIUS_ACCESS_TOKEN, spotifyCredentials, rawQuery,
                 geniusOutcome>>
  /\ UNCHANGED callerVars
  /\ UNCHANGED extraVars

LyricsTick ==
  /\ now + TickMs <= MaxLyricsTicks * TickMs
  /\ now' = now + TickMs
  /\ UNCHANGED <<cachedSpotifyToken, spotifyExpiresAt, tokenRequests,
                 nextToken>>
  /\ UNCHANGED callerVars
  /\ UNCHANGED extraVars
  /\ UNCHANGED lyricsVars

InitLyrics ==
  /\ now = 0
  /\ cachedSpotifyToken = Null
  /\ spotifyExpiresAt = 0
  /\ pc = [p \in Callers |-> "idle"]
  /\ call = [p \in Callers |-> NoCall]
  /\ tokenRequests = 0
  /\ nextToken = 1
  /\ callsStarted = 0
  /\ GENIUS_ACCESS_TOKEN \in BOOLEAN
  /\ spotifyCredentials \in BOOLEAN
  /\ LyricsIdle
  /\ ExtraIdle

NextLyrics ==
  \/ \E rawq \in QueryValues : SearchLyricsRequest(rawq)
  \/ \E body \in GeniusBodies : GeniusResponse(TRUE, body)
  \/ GeniusResponse(FALSE, <<>>)
  \/ GeniusFailure
  \/ \E e \in ExpiresInValues \cup {NaN} : LyricsTokenResponse(e)
  \/ LyricsTokenFailure
  \/ \E items \in ItemLists : SpotifyResponse(items)
  \/ SpotifyFailure
  \/ LyricsTick

SpecLyrics == InitLyrics /\ [][NextLyrics]_vars

\* Each outbound call carries an axios timeout (line 187: 8000, line 277:
\* 9000, line 317: 8000), so a call that is not answered is rejected: the
\* rejection of a pending call cannot be postponed for ever.
LyricsFairness ==
  /\ WF_vars(GeniusFailure)
  /\ WF_vars(LyricsTokenFailure)
  /\ WF_vars(SpotifyFailure)

SpecLyricsLive == InitLyrics /\ [][NextLyrics]_vars /\ LyricsFairness

\* ============================================== GET /api/spotify/search
\* src/server.js lines 173-190, calling getSpotifyToken of lines 142-168.
\* One request is in progress at a time; a new one may start once the
\* previous one was answered.

SearchRespond(status, kind, body) ==
  /\ ssRes' = [status |-> status, kind |-> kind, body |-> body]
  /\ spc' = "sent"

\* lines 175-177, then getSpotifyToken lines 143-162: a cache hit goes
\* straight to the search of lines 179-183, a miss POSTs the exchange
SpotifySearchRequest(rawq) ==
  /\ spc \in {"idle", "sent"}
  /\ searchesStarted < MaxSearches
  /\ searchesStarted' = searchesStarted + 1
  /\ LET query == trim(IF rawq = Undefined THEN <<>> ELSE rawq)
     IN /\ ssRawQuery' = rawq
        /\ ssQuery' = query
        /\ ssDelivered' = <<>>
        /\ ssEntryNow' = now
        /\ ssSentAt' = now
        /\ IF query = <<>>
           THEN /\ SearchRespond(400, "message", <<>>)
                /\ ssCalls' = NoSearchCalls
                /\ ssOutcome' = NoOutcome
                /\ ssToken' = Null
                /\ UNCHANGED tokenRequests
           ELSE IF CacheHit(now)
           THEN /\ spc' = "search"
                /\ ssRes' = NoResponse
                /\ ssToken' = cachedSpotifyToken
                /\ ssCalls' = [NoSearchCalls EXCEPT !.search = 1]
                /\ ssOutcome' = [token |-> "hit", search |-> "pending"]
                /\ UNCHANGED tokenRequests
           ELSE /\ spc' = "token"
                /\ ssRes' = NoResponse
                /\ ssToken' = Null
                /\ ssCalls' = [NoSearchCalls EXCEPT !.token = 1]
                /\ ssOutcome' = [token |-> "pending", search |-> "none"]
                /\ tokenRequests' = tokenRequests + 1
  /\ UNCHANGED <<now, cachedSpotifyToken, spotifyExpiresAt, nextToken>>
  /\ UNCHANGED <<callerVars, lyricsVars, pureVars, dbVars>>

\* getSpotifyToken lines 164-167 (the body may lack access_token or
\* expires_in), then the search of lines 179-183 is sent with the value
\* it returned
SearchTokenResponse(hasToken, expires_in) ==
  /\ spc = "token"
  /\ now - ssEntryNow < TokenTimeoutMs
  /\ LET access_token == IF hasToken THEN nextToken ELSE Null
     IN /\ cachedSpotifyToken' = access_token
        /\ spotifyExpiresAt' = ExpiryOf(ssEntryNow, expires_in)
        /\ ssToken' = access_token
  /\ nextToken' = IF hasToken THEN nextToken + 1 ELSE nextToken
  /\ spc' = "search"
  /\ ssSentAt' = now
  /\ ssCalls' = [ssCalls EXCEPT !.search = @ + 1]
  /\ ssOutcome' = [token |-> IF hasToken THEN "answered" ELSE "tokenless",
                   search |-> "pending"]
  /\ UNCHANGED <<now, tokenRequests, ssRawQuery, ssQuery, ssEntryNow, ssRes,
                 ssDelivered, searchesStarted>>
  /\ UNCHANGED <<callerVars, lyricsVars, pureVars, dbVars>>

\* part_001 line 586: an upstream failure answered with 502
SearchTokenFailure_badGateway ==
  /\ spc = "token"
  /\ SearchRespond(502, "message", <<>>)
  /\ ssOutcome' = [ssOutcome EXCEPT !.token = "failed"]
  /\ UNCHANGED <<now, cacheVars, tokenRequests, nextToken, ssRawQuery,
                 ssQuery, ssToken, ssEntryNow, ssSentAt, ssCalls,
                 ssDelivered, searchesStarted>>
  /\ UNCHANGED <<callerVars, lyricsVars, pureVars, dbVars>>

\* getSpotifyToken line 152 rejects (network error, timeout, non-2xx); the
\* catch of lines 186-189 answers 500
SearchTokenFailure ==
  /\ spc = "token"
  /\ SearchRespond(500, "message", <<>>)
  /\ ssOutcome' = [ssOutcome EXCEPT !.token = "failed"]
  /\ UNCHANGED <<now, cacheVars, tokenRequests, nextToken, ssRawQuery,
                 ssQuery, ssToken, ssEntryNow, ssSentAt, ssCalls,
                 ssDelivered, searchesStarted>>
  /\ UNCHANGED <<callerVars, lyricsVars, pureVars, dbVars>>

\* lines 179-185: the catalog answered 2xx before the 8000 ms timeout, which
\* it does only for a request carrying a bearer token; a body without
\* tracks makes line 185 throw into the catch of lines 186-189
CatalogResponse(hasTracks, items) ==
  /\ spc = "search"
  /\ Truthy(ssToken)
  /\ now - ssSentAt < SearchTimeoutMs
  /\ IF hasTracks
     THEN /\ SearchRespond(200, "array", items)
          /\ ssDelivered' = items
          /\ ssOutcome' = [ssOutcome EXCEPT !.search = "answered"]
     ELSE /\ SearchRespond(500, "message", <<>>)
          /\ ssDelivered' = <<>>
          /\ ssOutcome' = [ssOutcome EXCEPT !.search = "malformed"]
  /\ UNCHANGED <<now, cacheVars, tokenRequests, nextToken, ssRawQuery,
                 ssQuery, ssToken, ssEntryNow, ssSentAt, ssCalls,
                 searchesStarted>>
  /\ UNCHANGED <<callerVars, lyricsVars, pureVars, dbVars>>

\* line 179 rejects (network error, timeout, non-2xx such as the 401 for a
\* missing or expired token); the catch of lines 186-189 answers 500
CatalogFailure ==
  /\ spc = "search"
  /\ SearchRespond(500, "message", <<>>)
  /\ ssOutcome' = [ssOutcome EXCEPT !.search = "failed"]
  /\ UNCHANGED <<now, cacheVars, tokenRequests, nextToken, ssRawQuery,
                 ssQuery, ssToken, ssEntryNow, ssSentAt, ssCalls,
                 ssDelivered, searchesStarted>>
  /\ UNCHANGED <<callerVars, lyricsVars, pureVars, dbVars>>

SearchTick ==
  /\ now + TickMs <= MaxNow
  /\ now' = now + TickMs
  /\ UNCHANGED <<cacheVars, tokenRequests, nextToken>>
  /\ UNCHANGED <<callerVars, lyricsVars, extraVars>>

NextSearch ==
  \/ \E rawq \in QueryValues : SpotifySearchRequest(rawq)
  \/ \E hasToken \in BOOLEAN, e \in ExpiresInValues \cup {NaN} :
        SearchTokenResponse(hasToken, e)
  \/ SearchTokenFailure
  \/ \E items \in ItemLists : CatalogResponse(TRUE, items)
  \/ CatalogResponse(FALSE, <<>>)
  \/ CatalogFailure
  \/ SearchTick

SpecSearch == Init /\ [][NextSearch]_vars

\* ===================================== the hit filter and cap on their own
\* part_002 lines 280-289 applied to Genius bodies longer than the cap:
\* MaxGap-bounded runs of hits matching neither field, each followed by a
\* MaxRun-bounded run of matching hits; the hit at position k has url k.
FilterQuery == <<"l">>

HitAt(k, matching) ==
  IF ~matching
  THEN [title |-> <<"x">>, artist |-> <<"y">>, url |-> k, image |-> 0]
  ELSE IF k % 2 = 0
  THEN [title |-> <<"L", "o">>, artist |-> <<"a">>, url |-> k, image |-> 0]
  ELSE [title |-> <<"x">>, artist |-> <<"L">>, url |-> k, image |-> 0]

PatternHits(n1, m1, n2, m2) ==
  [k \in 1..(n1 + m1 + n2 + m2) |->
     HitAt(k, \/ (n1 < k /\ k <= n1 + m1)
              \/ n1 + m1 + n2 < k)]

FilterInputs ==
  { PatternHits(n1, m1, n2, m2) :
      n1 \in 0..MaxGap, m1 \in 0..MaxRun, n2 \in 0..MaxGap, m2 \in 0..MaxRun }

ServerIdle ==
  /\ now = 0
  /\ cachedSpotifyToken = Null
  /\ spotifyExpiresAt = 0
  /\ pc = [p \in Callers |-> "idle"]
  /\ call = [p \in Callers |-> NoCall]
  /\ tokenRequests = 0
  /\ nextToken = 1
  /\ callsStarted = 0
  /\ GENIUS_ACCESS_TOKEN = TRUE
  /\ spotifyCredentials = TRUE
  /\ LyricsIdle
  /\ SearchIdle

InitFilter ==
  /\ ServerIdle
  /\ SelectIdle
  /\ DbIdle
  /\ fpc = "input"
  /\ rawHits \in FilterInputs
  /\ cappedHits = <<>>

\* lines 282-289
ApplyFilter ==
  /\ fpc = "input"
  /\ cappedHits' = FilterHits(rawHits, FilterQuery)
  /\ fpc' = "done"
  /\ UNCHANGED <<now, cacheVars, tokenRequests, nextToken, rawHits>>
  /\ UNCHANGED <<callerVars, lyricsVars, searchVars, selectVars, dbVars>>

NextFilter == ApplyFilter

SpecFilter == InitFilter /\ [][NextFilter]_vars

\* ======================================== the track selection on its own
\* part_002 lines 320-326 applied to result lists and hints of its own
SelectPool ==
  TrackPool \cup
  { [name |-> <<"l", "o">>, artists |-> <<>>, url |-> 13,
     preview_url |-> 23, image |-> 0],
    [name |-> <<"x">>, artists |-> << <<"a">>, <<"Z">> >>, url |-> 14,
     preview_url |-> 0, image |-> 34] }

SelectHints == {<<"l">>, <<"z">>, <<"y", " ", "z">>, <<"q">>}

InitSelect ==
  /\ ServerIdle
  /\ FilterIdle
  /\ DbIdle
  /\ selPc = "input"
  /\ selItems \in SeqsUpTo(SelectPool, MaxItems)
  /\ selHint \in SelectHints
  /\ selTrack = <<>>

\* lines 320-326
ApplySelect ==
  /\ selPc = "input"
  /\ selTrack' = SelectTrack(selItems, selHint)
  /\ selPc' = "done"
  /\ UNCHANGED <<now, cacheVars, tokenRequests, nextToken, selItems, selHint>>
  /\ UNCHANGED <<callerVars, lyricsVars, searchVars, filterVars, dbVars>>

NextSelect == ApplySelect

SpecSelect == InitSelect /\ [][NextSelect]_vars

\* ==================================================================== claims
Finished(p) == call[p].status \in {"returned", "threw"}

\* C1: when the Genius search call of a search-lyrics request fails (the
\* call rejects, or its body is malformed), the request is answered with
\* HTTP 200 and an empty JSON array.
C1_GeniusFailureDegrades ==
  geniusOutcome \in {"failed", "malformed"} =>
    /\ rpc = "sent"
    /\ res = [status |-> 200, kind |-> "array", body |-> <<>>]

C1_Witness ==
  geniusOutcome = "failed" /\ rpc = "sent" /\ res.status = 200

\* C2: the response has one entry per hit, in hit order; the entry of a hit
\* whose catalog lookup failed keeps the hit's title, artist and lyrics URL
\* with spotify_url and preview_url null, the entry of a hit whose lookup
\* succeeded carries the URLs of one of the tracks that lookup returned.
C2_PartialResults ==
  (rpc = "sent" /\ geniusOutcome = "answered") =>
    /\ res.status = 200
    /\ Len(res.body) = Len(hits)
    /\ Len(lookups) = Len(hits)
    /\ \A k \in 1..Len(hits) :
         /\ res.body[k].title = hits[k].title
         /\ res.body[k].artist = hits[k].artist
         /\ res.body[k].genius_url = hits[k].url
         /\ lookups[k].failed =>
              res.body[k].spotify_url = Null /\ res.body[k].preview_url = Null
         /\ (~lookups[k].failed /\ lookups[k].items = <<>>) =>
              res.body[k].spotify_url = Null /\ res.body[k].preview_url = Null
         /\ (~lookups[k].failed /\ lookups[k].items # <<>>) =>
              \E m \in 1..Len(lookups[k].items) :
                /\ res.body[k].spotify_url = lookups[k].items[m].url
                /\ res.body[k].preview_url = lookups[k].items[m].preview_url

C2_Witness ==
  /\ rpc = "sent"
  /\ Len(hits) = 3
  /\ Len(res.body) = 3
  /\ ~lookups[1].failed /\ res.body[1].spotify_url # Null
  /\ lookups[2].failed /\ res.body[2].spotify_url = Null
  /\ ~lookups[3].failed /\ res.body[3].spotify_url # Null

\* C3: a call entered while the credential is still valid sends no request
\* and returns the cached value; a successful call followed by such a call
\* makes exactly one identity-provider request in total.
C3_TokenReuse ==
  /\ \A p \in Callers :
       (call[p].status # "none" /\ call[p].validAtEntry) =>
         /\ call[p].status = "returned"
         /\ call[p].sent = 0
         /\ call[p].value = call[p].cachedAtEntry
  /\ (callsStarted = 2
        /\ \E p \in Callers : call[p].status # "none" /\ call[p].validAtEntry)
       => tokenRequests = 1

C3_Witness ==
  /\ callsStarted = 2
  /\ tokenRequests = 1
  /\ now > 0
  /\ \E p \in Callers :
       /\ call[p].status = "returned"
       /\ call[p].validAtEntry
       /\ call[p].value # Null

\* C4: a call entered when the credential is not valid any more sends
\* exactly one request, and when it returns it returns the token of that
\* request's answer, never the value cached before.
C4_TokenRenewal ==
  \A p \in Callers :
    (Finished(p) /\ ~call[p].validAtEntry) =>
      /\ call[p].sent = 1
      /\ call[p].status = "returned" =>
           /\ call[p].value = call[p].issued
           /\ call[p].cachedAtEntry # Null =>
                call[p].value # call[p].cachedAtEntry

C4_Witness ==
  \E p \in Callers :
    /\ call[p].status = "returned"
    /\ ~call[p].validAtEntry
    /\ call[p].cachedAtEntry # Null
    /\ call[p].value # Null
    /\ call[p].entryNow > 0
    /\ \A o \in Callers : pc[o] = "idle"

\* C5: whenever getSpotifyToken hands a token value to a caller, the expiry
\* recorded for it is strictly later than the current time.
C5_NeverExposedStale ==
  \A p \in Callers :
    (call[p].status = "returned" /\ call[p].value # Null) =>
      call[p].freshAtReturn

\* C6: when the exchange of a call fails (the POST rejects, or the answer
\* carries no access_token), the call surfaces an error and the cached token
\* and expiry are left as they were.
C6_FailedExchangeLeavesCache ==
  [][\A p \in Callers :
       (pc[p] = "awaiting" /\ pc'[p] = "idle" /\ call'[p].issued = Null) =>
         /\ call'[p].status = "threw"
         /\ cachedSpotifyToken' = cachedSpotifyToken
         /\ spotifyExpiresAt' = spotifyExpiresAt]_vars

\* C7: at most one identity-provider request is in flight at any time.
C7_SingleRefreshInFlight ==
  Cardinality({p \in Callers : pc[p] = "awaiting"}) <= 1

\* C8: a request whose q is missing, empty or only whitespace is answered
\* 400 and makes no upstream call.
IsBlank(raw) ==
  raw = Undefined \/ \A k \in 1..Len(raw) : raw[k] = " "

C8_BlankQueryRejected ==
  (rpc # "idle" /\ IsBlank(rawQuery)) =>
    /\ rpc = "sent"
    /\ res.status = 400
    /\ reqCalls = NoCalls
    /\ geniusOutcome = "none"

C8_Witness ==
  /\ rpc = "sent"
  /\ rawQuery = <<" ", " ">>
  /\ res.status = 400

\* C9: no two entries of a search-lyrics response have the same title.
C9_NoDuplicateTitles ==
  (rpc = "sent" /\ res.kind = "array") =>
    \A a, b \in 1..Len(res.body) :
      a # b => res.body[a].title # res.body[b].title

\* C10: the entries of a response are in the relative order of the hits
\* they were built from.
HitsWithUrl(url) == { k \in 1..Len(hits) : hits[k].url = url }

C10_OrderPreserved ==
  (rpc = "sent" /\ res.kind = "array") =>
    /\ \A a \in 1..Len(res.body) : HitsWithUrl(res.body[a].genius_url) # {}
    /\ \A a, b \in 1..Len(res.body) :
         a < b =>
           \A ka \in HitsWithUrl(res.body[a].genius_url),
              kb \in HitsWithUrl(res.body[b].genius_url) : ka < kb

C10_Witness ==
  /\ rpc = "sent"
  /\ Len(res.body) = 3
  /\ lookups[1].failed
  /\ ~lookups[2].failed
  /\ res.body[1].genius_url # res.body[3].genius_url

\* C11: a search-lyrics request with a non-blank q is never answered with a
\* 5xx status, whatever upstream call fails or times out.
C11_Never5xx ==
  (rpc = "sent" /\ ~IsBlank(rawQuery)) => res.status < 500

\* C11 (amended): when the Genius credential is configured, a request with a
\* non-blank q is answered 200 with an array, whatever upstream call fails
\* or times out.
C11_Never5xxConfigured ==
  (rpc = "sent" /\ ~IsBlank(rawQuery) /\ GENIUS_ACCESS_TOKEN) =>
    /\ res.status = 200
    /\ res.kind = "array"

C11_Witness ==
  /\ rpc = "sent"
  /\ ~IsBlank(rawQuery)
  /\ GENIUS_ACCESS_TOKEN
  /\ geniusOutcome = "answered"
  /\ Len(hits) >= 2
  /\ reqCalls.token >= 1
  /\ reqCalls.spotify >= 1
  /\ \A k \in 1..Len(lookups) : lookups[k].failed
  /\ res.status = 200
  /\ \A k \in 1..Len(res.body) : res.body[k].spotify_url = Null

\* C12: with no Genius credential configured, a request with a non-blank q
\* is answered with the 500 configuration error and no upstream call is made.
C12_MissingKeyFails ==
  (rpc # "idle" /\ ~IsBlank(rawQuery) /\ ~GENIUS_ACCESS_TOKEN) =>
    /\ rpc = "sent"
    /\ res.status = 500
    /\ res.kind = "message"
    /\ reqCalls = NoCalls
    /\ tokenRequests = 0

C12_Witness ==
  /\ rpc = "sent"
  /\ rawQuery = <<" ", "l", " ">>
  /\ ~GENIUS_ACCESS_TOKEN
  /\ res.status = 500
  /\ reqCalls.genius = 0

\* C13: /api/spotify/search answers 400 to a missing or blank q without any
\* upstream call, 500 when the token exchange or the catalog search fails,
\* and otherwise 200 with the catalog's track items; no other status.
ExchangeFailed == ssOutcome.token \in {"failed", "tokenless"}

CatalogFailed == ssOutcome.search \in {"failed", "malformed"}

MatchingBefore(k) ==
  Cardinality({ j \in 1..(k - 1) : HitMatches(rawHits[j], FilterQuery) })

C14_CapAfterFilter ==
  (fpc = "done") =>
    /\ Len(cappedHits) <= 25
    /\ \A k \in 1..Len(rawHits) :
         IF HitMatches(rawHits[k], FilterQuery) /\ MatchingBefore(k) < 25
         THEN /\ MatchingBefore(k) < Len(cappedHits)
              /\ cappedHits[MatchingBefore(k) + 1] = rawHits[k]
         ELSE \A i \in 1..Len(cappedHits) : cappedHits[i] # rawHits[k]

C14_Witness ==
  /\ fpc = "done"
  /\ Len(rawHits) > 27
  /\ ~HitMatches(rawHits[1], FilterQuery)
  /\ ~HitMatches(rawHits[Len(rawHits) - 1], FilterQuery)
  /\ MatchingBefore(Len(rawHits)) = 25
  /\ HitMatches(rawHits[Len(rawHits)], FilterQuery)
  /\ Len(cappedHits) = 25
  /\ cappedHits[25] = rawHits[Len(rawHits) - 2]

\* C15: every entry of a search-lyrics response has a title or a primary
\* artist name that contains the query q, compared without regard to case.
ContainsIgnoringCase(str, sub) ==
  /\ str # Undefined
  /\ \E i \in 0..(Len(str) - Len(sub)) :
       \A j \in 1..Len(sub) : LowerChar(str[i + j]) = LowerChar(sub[j])

C15_OnlyMatchingHits ==
  (rpc = "sent" /\ res.kind = "array") =>
    \A k \in 1..Len(res.body) :
      \/ ContainsIgnoringCase(res.body[k].title, q)
      \/ ContainsIgnoringCase(res.body[k].artist, q)

C15_Witness ==
  /\ rpc = "sent"
  /\ geniusOutcome = "answered"
  /\ q = <<"l">>
  /\ Len(res.body) = 2
  /\ res.body[1].title = <<"L", "o">>
  /\ res.body[1].artist = Undefined
  /\ res.body[2].title = <<"x">>
  /\ res.body[2].artist = <<"L">>

\* C16: the track chosen is the first result whose track name, or one of
\* whose individual artist names, contains the hint without regard to case;
\* the first raw result if none qualifies; none if the list is empty.
Qualifies(t, hint) ==
  \/ ContainsIgnoringCase(t.name, hint)
  \/ \E a \in 1..Len(t.artists) : ContainsIgnoringCase(t.artists[a], hint)

Qualifying(items, hint) ==
  { k \in 1..Len(items) : Qualifies(items[k], hint) }

C16_SelectionRule ==
  (selPc = "done") =>
    IF selItems = <<>> THEN selTrack = <<>>
    ELSE IF Qualifying(selItems, selHint) = {} THEN selTrack = <<selItems[1]>>
    ELSE \E k \in Qualifying(selItems, selHint) :
           /\ \A m \in Qualifying(selItems, selHint) : k <= m
           /\ selTrack = <<selItems[k]>>

\* C17: each response entry joins one hit with at most one track: title,
\* artist and lyrics URL are the hit's, track URL and preview URL are those
\* of the track selected from that same hit's lookup, or null when the
\* lookup failed or found nothing.
OwnTrack(k) ==
  IF lookups[k].failed THEN <<>> ELSE SelectTrack(lookups[k].items, q)

C17_EntryJoinsOwnTrack ==
  (rpc = "sent" /\ geniusOutcome = "answered") =>
    /\ Len(res.body) = Len(lookups)
    /\ \A k \in 1..Len(res.body) :
         /\ res.body[k].title = hits[k].title
         /\ res.body[k].artist = hits[k].artist
         /\ res.body[k].genius_url = hits[k].url
         /\ res.body[k].spotify_url =
              IF OwnTrack(k) = <<>> THEN Null ELSE OwnTrack(k)[1].url
         /\ res.body[k].preview_url =
              IF OwnTrack(k) = <<>> THEN Null ELSE OwnTrack(k)[1].preview_url

C17_Witness ==
  /\ rpc = "sent"
  /\ Len(res.body) = 3
  /\ ~lookups[1].failed /\ ~lookups[2].failed /\ ~lookups[3].failed
  /\ res.body[1].spotify_url = 11 /\ res.body[1].preview_url = 21
  /\ res.body[2].spotify_url = 12 /\ res.body[2].preview_url = Null
  /\ lookups[3].items = <<>> /\ res.body[3].spotify_url = Null

\* C18: one invocation of getSpotifyToken sends no request on a cache hit
\* and exactly one on a miss, never a second one; a failure is never served
\* from the cache, and an invocation entered after a failed one, with no
\* valid credential cached, sends a new request.
C18_OneRequestPerCall ==
  /\ tokenRequests <= callsStarted
  /\ \A p \in Callers :
       call[p].status # "none" =>
         /\ call[p].sent = IF call[p].validAtEntry THEN 0 ELSE 1
         /\ call[p].status = "threw" => call[p].sent = 1
         /\ (call[p].afterFailure /\ ~call[p].validAtEntry) =>
              call[p].sent = 1

C18_Witness ==
  /\ call[1].status = "threw"
  /\ call[2].afterFailure
  /\ call[2].status = "returned"
  /\ call[2].sent = 1
  /\ Truthy(call[2].value)
  /\ tokenRequests = 2

\* C19: while the token of a successful refresh is the cached one, the
\* stored expiry is the clock value that refresh read at entry plus its
\* expires_in in milliseconds; a call entered while that token is cached is
\* served from the cache exactly when its clock value is below that expiry
\* minus 5000 ms.
Refreshed(p) ==
  /\ call[p].status = "returned"
  /\ call[p].sent = 1
  /\ call[p].issued # Null
  /\ call[p].expires_in # NaN

ExpiryGranted(p) == call[p].entryNow + call[p].expires_in * 1000

C19_ExpiryArithmetic ==
  \A p \in Callers :
    Refreshed(p) =>
      /\ cachedSpotifyToken = call[p].issued =>
           spotifyExpiresAt = ExpiryGranted(p)
      /\ \A o \in Callers :
           (call[o].status # "none" /\ call[o].cachedAtEntry = call[p].issued)
             => (call[o].sent = 0 <=>
                   call[o].entryNow < ExpiryGranted(p) - 5000)

C19_Witness ==
  /\ Refreshed(1)
  /\ call[1].entryNow = 2000
  /\ call[1].expires_in = 8
  /\ spotifyExpiresAt = 10000
  /\ call[2].cachedAtEntry = call[1].issued
  /\ call[2].entryNow = 4000
  /\ call[2].sent = 0
  /\ call[2].value = call[1].issued

\* C20: the cached token and expiry are modified only by the step of
\* getSpotifyToken that ends a successful refresh, one that obtained a token;
\* every other step leaves both fields unchanged.
C20_CacheWrittenOnlyBySuccess ==
  [][cacheVars' # cacheVars =>
       \E p \in Callers :
         /\ pc[p] = "awaiting"
         /\ call'[p].status = "returned"
         /\ call'[p].issued # Null]_vars

\* C21: every search-lyrics request with a non-blank q is eventually
\* answered, given that each pending upstream call is answered or rejected
\* by its timeout.
C21_EventuallyResponds ==
  (rpc # "idle" /\ ~IsBlank(rawQuery)) ~> (rpc = "sent")

C21_Witness ==
  /\ rpc = "sent"
  /\ ~IsBlank(rawQuery)
  /\ geniusOutcome = "answered"
  /\ Len(hits) >= 2
  /\ lookups[Len(lookups)].failed
  /\ now - sentAt >= SearchTimeoutMs
  /\ res.status = 200
  /\ Len(res.body) = Len(hits)

\* C22: once the response of a search-lyrics request has been sent, no
\* upstream call of that request is pending and none is started afterwards.
C22_NothingPendingAfterResponse ==
  /\ [](rpc = "sent" => reqCalls.pending = 0)
  /\ [][rpc = "sent" =>
          (reqCalls' = reqCalls /\ tokenRequests' = tokenRequests)]_vars

C22_Witness ==
  /\ rpc = "sent"
  /\ geniusOutcome = "answered"
  /\ reqCalls.genius = 1
  /\ reqCalls.token >= 1
  /\ reqCalls.spotify >= 2
  /\ reqCalls.pending = 0
  /\ now > sentAt

\* C23: within one search-lyrics request at most one catalog lookup is in
\* flight, and the lookup of a hit starts only after the lookups of all
\* earlier hits have completed or failed.
LookupInFlight == rpc \in {"token", "spotify"}

C23_LookupsSequential ==
  /\ reqCalls.pending <= 1
  /\ LookupInFlight =>
       /\ reqCalls.pending = 1
       /\ idx \in 1..Len(hits)
       /\ Len(lookups) = idx - 1
       /\ Len(results) = idx - 1

C23_Witness ==
  /\ rpc = "spotify"
  /\ Len(hits) = 3
  /\ idx = 3
  /\ Len(lookups) = 2
  /\ lookups[1].failed
  /\ ~lookups[2].failed
  /\ reqCalls.pending = 1

\* C24: within one search-lyrics request no Spotify call (token exchange or
\* search) starts before the Genius search has completed, and none is made
\* at all when the Genius search failed or no hit passed the filter.
SpotifyCalls == reqCalls.token + reqCalls.spotify

C24_GeniusFirst ==
  /\ rpc = "genius" => SpotifyCalls = 0
  /\ SpotifyCalls > 0 => (geniusOutcome = "answered" /\ hits # <<>>)
  /\ (rpc = "sent" /\ (geniusOutcome # "answered" \/ hits = <<>>)) =>
       (SpotifyCalls = 0 /\ tokenRequests = 0)

C24_Witness ==
  /\ rpc = "sent"
  /\ ~IsBlank(rawQuery)
  /\ geniusOutcome = "answered"
  /\ hits = <<>>
  /\ reqCalls.genius = 1
  /\ SpotifyCalls = 0
  /\ res.status = 200
  /\ res.body = <<>>

\* C25: a failed token exchange is a per-hit failure: the request answers
\* 200 with one entry per hit, the exchange is attempted again for each
\* following hit, at most one exchange is sent per hit, and exactly one in
\* total when the first exchange succeeds with a validity longer than the
\* request.
C25_PerHitExchange ==
  /\ LookupInFlight => reqCalls.token <= idx
  /\ (rpc = "sent" /\ geniusOutcome = "answered") =>
       /\ res.status = 200
       /\ Len(res.body) = Len(hits)
       /\ reqCalls.token <= Len(hits)
       /\ (spotifyCredentials /\ cachedSpotifyToken = Null) =>
            /\ reqCalls.token = Len(hits)
            /\ \A k \in 1..Len(res.body) :
                 /\ res.body[k].spotify_url = Null
                 /\ res.body[k].preview_url = Null

C25_TokenFailurePerHit ==
  /\ C25_PerHitExchange
  /\ (rpc = "sent" /\ reqCalls.first > now) => reqCalls.token = 1

\* C25 (amended): as above, with exactly one exchange in total when the
\* first exchange succeeds and the last upstream call of the request starts
\* before the granted expiry minus the 5000 ms safety margin.
C25_TokenFailurePerHitMargin ==
  /\ C25_PerHitExchange
  /\ (rpc = "sent" /\ reqCalls.first > 0
        /\ sentAt < reqCalls.first - 5000) => reqCalls.token = 1

C25_Witness ==
  /\ rpc = "sent"
  /\ Len(hits) = 3
  /\ reqCalls.first = Null
  /\ reqCalls.token = 3
  /\ lookups[1].failed /\ res.body[1].spotify_url = Null
  /\ lookups[2].failed /\ res.body[2].spotify_url = Null
  /\ ~lookups[3].failed /\ res.body[3].spotify_url # Null
  /\ res.status = 200

\* C26: under any interleaving of overlapping getSpotifyToken calls, every
\* step that changes the cached token or the cached expiry writes both from
\* one provider response, so the cache never pairs the token of one refresh
\* with the expiry of another.
C26_TokenAndExpiryTogether ==
  [][cacheVars' # cacheVars =>
       \E p \in Callers :
         /\ pc[p] = "awaiting"
         /\ call'[p].status = "returned"
         /\ cachedSpotifyToken' = call'[p].issued
         /\ spotifyExpiresAt' =
              IF call'[p].expires_in = NaN THEN NaN
              ELSE call[p].entryNow + call'[p].expires_in * 1000]_vars

C26_Witness ==
  /\ call[1].status = "returned" /\ call[1].sent = 1
  /\ call[2].status = "returned" /\ call[2].sent = 1
  /\ call[1].cachedAtEntry = Null /\ call[2].cachedAtEntry = Null
  /\ call[1].issued = 1 /\ call[1].expires_in = 8
  /\ call[2].issued = 2 /\ call[2].expires_in = 1
  /\ call[2].entryNow > call[1].entryNow
  /\ cachedSpotifyToken = 2
  /\ spotifyExpiresAt = call[2].entryNow + 1000


\* ================================================= accounts and sessions
\* server.js, POST /api/usuarios/login and GET /api/usuarios/me.  The
\* database, bcrypt and jsonwebtoken are called, not implemented, by the
\* program: a digest is an injective image of the password that compare
\* recomputes, and a token is its claims together with the key that signed
\* it, which verify compares with the key it is given.

\* the fallback of line 111
DefaultSecret == 123

SecretValues == {Null, 7}

\* bcrypt.hash(senha, 10), line 77
Hash(senha) == senha + 100

\* bcrypt.compare(senha, user.senha), line 106
Compare(senha, digest) == digest = Hash(senha)

\* jwt.sign(claims, secret, ...), lines 109-113
Sign(id, email, secret) == [id |-> id, email |-> email, key |-> secret]

\* jwt.verify(token, secret), line 125: throws on an empty token, on a
\* missing secret and on a signature made with another key
Verifies(token, secret) ==
  /\ token # NoToken
  /\ Truthy(secret)
  /\ token.key = secret

Emails == {<<"L">>, <<"l">>, <<"z">>}

Senhas == {1, 2}

UserPool ==
  { [id |-> 1, nome |-> 11, email |-> <<"L">>, senha |-> Hash(1)],
    [id |-> 2, nome |-> 12, email |-> <<"l">>, senha |-> Hash(2)],
    [id |-> 3, nome |-> 13, email |-> <<"z">>, senha |-> Hash(1)] }

AscendingIds(s) == \A a, b \in DOMAIN s : a < b => s[a].id < s[b].id

UserTables == { s \in SeqsUpTo(UserPool, MaxUsers) : AscendingIds(s) }

\* SELECT * FROM usuarios WHERE LOWER(email) = LOWER($1), line 98: the
\* positions of the rows it returns
SelectByLowerEmail(email) ==
  { k \in DOMAIN usuarios : toLowerCase(usuarios[k].email) = toLowerCase(email) }

\* SELECT id, nome, email FROM usuarios WHERE id = $1, line 127
SelectById(id) == { k \in DOMAIN usuarios : usuarios[k].id = id }

Profile(row) == [id |-> row.id, nome |-> row.nome, email |-> row.email]

AuthResponse(status, token, body) ==
  [status |-> status, token |-> token, body |-> body]

InitLogin ==
  /\ ServerIdle
  /\ FilterIdle
  /\ SelectIdle
  /\ RegIdle
  /\ LikesIdle
  /\ usuarios \in UserTables
  /\ usuariosUnique = TRUE
  /\ JWT_SECRET \in SecretValues
  /\ authReq = NoAuthRequest
  /\ authRes = NoAuthResponse
  /\ issued = NoToken

idleVars ==
  <<now, cacheVars, tokenRequests, nextToken, callerVars, lyricsVars,
    searchVars, pureVars>>

LoginRequest(email, senha, dbOk) ==
  [op |-> "login", email |-> email, senha |-> senha, token |-> NoToken,
   dbOk |-> dbOk, n |-> authReq.n + 1]

\* lines 105-115: rows[0] is the row the password is checked against
LoginRow_noCompare(row, senha) ==
  AuthResponse(200, Sign(row.id, row.email,
                         IF Truthy(JWT_SECRET) THEN JWT_SECRET
                         ELSE DefaultSecret), Null)

\* lines 105-115: rows[0] is the row the password is checked against
LoginRow(row, senha) ==
  IF ~Compare(senha, row.senha)
  THEN AuthResponse(401, NoToken, Null)
  ELSE AuthResponse(200, Sign(row.id, row.email,
                              IF Truthy(JWT_SECRET) THEN JWT_SECRET
                              ELSE DefaultSecret), Null)

\* lines 91-119.  The query has no ORDER BY, so any row it matches may come
\* first; dbOk = FALSE is pool.query rejecting.
Login(email, senha, dbOk) ==
  /\ authReq.n < MaxAuthRequests
  /\ authReq' = LoginRequest(email, senha, dbOk)
  /\ \E r \in (IF email = <<>> \/ ~Truthy(senha)
               THEN {AuthResponse(400, NoToken, Null)}
               ELSE IF ~dbOk
               THEN {AuthResponse(500, NoToken, Null)}
               ELSE IF SelectByLowerEmail(email) = {}
               THEN {AuthResponse(401, NoToken, Null)}
               ELSE { LoginRow(usuarios[k], senha) :
                        k \in SelectByLowerEmail(email) }) :
       /\ authRes' = r
       /\ issued' = IF r.token # NoToken THEN r.token ELSE issued
  /\ UNCHANGED <<idleVars, userVars, JWT_SECRET, regVars, likeVars>>

\* lines 121-134: every failure, a rejected query included, is a 401;
\* result.rows[0] is undefined when no row has the id
Me(token, dbOk) ==
  /\ authReq.n < MaxAuthRequests
  /\ authReq' = [op |-> "me", email |-> <<>>, senha |-> Null,
                 token |-> token, dbOk |-> dbOk, n |-> authReq.n + 1]
  /\ authRes' =
       IF ~Verifies(token, JWT_SECRET) \/ ~dbOk
       THEN AuthResponse(401, NoToken, Null)
       ELSE IF SelectById(token.id) = {}
       THEN AuthResponse(200, NoToken, Undefined)
       ELSE AuthResponse(200, NoToken,
              Profile(usuarios[CHOOSE k \in SelectById(token.id) : TRUE]))
  /\ UNCHANGED <<idleVars, userVars, JWT_SECRET, issued, regVars, likeVars>>

\* tokens a client can present: the one the last login returned, none, and
\* one signed with a key the server never used
ForgedToken == [id |-> 1, email |-> <<"L">>, key |-> 999]

PresentedTokens == {issued, NoToken, ForgedToken}

NextLogin ==
  \/ \E email \in Emails \cup {<<>>, <<"q">>}, senha \in Senhas \cup {Null},
        dbOk \in BOOLEAN : Login(email, senha, dbOk)
  \/ \E token \in PresentedTokens, dbOk \in BOOLEAN : Me(token, dbOk)

SpecLogin == InitLogin /\ [][NextLogin]_vars

\* C27: a login response carries a token only with status 200 and only when
\* some row of usuarios has the request's email, compared ignoring case, and
\* a digest that the request's password verifies against, the token naming
\* that row; every other login response carries no token and has status
\* 400, 401 or 500.
C27_TokenOnlyForVerifiedUser ==
  authReq.op = "login" =>
    /\ authRes.token # NoToken =>
         /\ authRes.status = 200
         /\ \E k \in DOMAIN usuarios :
              /\ toLowerCase(usuarios[k].email) = toLowerCase(authReq.email)
              /\ usuarios[k].senha = Hash(authReq.senha)
              /\ authRes.token.id = usuarios[k].id
    /\ authRes.token = NoToken => authRes.status \in {400, 401, 500}

\* a login with the right password for one of two rows that share the
\* email up to case has been answered with a token
C27_Witness ==
  /\ authReq.op = "login"
  /\ authRes.status = 200
  /\ authRes.token # NoToken
  /\ Cardinality(SelectByLowerEmail(authReq.email)) = 2

\* C28: whatever JWT_SECRET is, unset included, GET /api/usuarios/me whose
\* query succeeds answers the token of the last successful login with 200
\* and the id, nome and email of the user who logged in, and answers every
\* other token with 401.
C28_SessionRoundTrip ==
  (authReq.op = "me" /\ authReq.dbOk) =>
    IF authReq.token # NoToken /\ authReq.token = issued
    THEN /\ authRes.status = 200
         /\ \E k \in DOMAIN usuarios :
              /\ usuarios[k].id = issued.id
              /\ authRes.body = Profile(usuarios[k])
    ELSE authRes.status = 401

\* ================================================================ likes
\* server.js, POST /api/likes and DELETE /api/likes/:spotifyId/:userId.
\* Each handler runs one statement, which the database executes atomically.
\* curtidas[pair] is the sequence of the titulo of every row stored for the
\* pair, so that two rows for one pair can be told from one.

LikeTitles == {71, 72}

LikePairs == LikeUsers \X LikeSongs

InitLikes ==
  /\ ServerIdle
  /\ FilterIdle
  /\ SelectIdle
  /\ UsersIdle
  /\ AuthIdle
  /\ RegIdle
  /\ curtidas = [pair \in LikePairs |-> <<>>]
  /\ curtidasKey \in BOOLEAN
  /\ likeOp = NoLikeOp

LikeOp(op, usuario_id, spotify_id, titulo, status) ==
  [op |-> op, usuario_id |-> usuario_id, spotify_id |-> spotify_id,
   titulo |-> titulo, status |-> status, n |-> likeOp.n + 1]

\* lines 235-249
Like_plainInsert(usuario_id, spotify_id, titulo, dbOk) ==
  /\ likeOp.n < MaxLikeOps
  /\ IF ~dbOk
     THEN /\ likeOp' = LikeOp("like", usuario_id, spotify_id, titulo, 500)
          /\ UNCHANGED curtidas
     ELSE /\ likeOp' = LikeOp("like", usuario_id, spotify_id, titulo, 200)
          /\ curtidas' =
               [curtidas EXCEPT ![<<usuario_id, spotify_id>>] =
                  Append(@, titulo)]
  /\ UNCHANGED <<idleVars, userVars, authVars, regVars, curtidasKey>>

\* lines 235-249: INSERT ... ON CONFLICT (usuario_id, spotify_id) DO
\* NOTHING.  The statement is an error when the table has no unique index
\* on the two columns, and dbOk = FALSE is pool.query rejecting for any
\* other reason; both reach the catch.
Like(usuario_id, spotify_id, titulo, dbOk) ==
  /\ likeOp.n < MaxLikeOps
  /\ IF ~dbOk \/ ~curtidasKey
     THEN /\ likeOp' = LikeOp("like", usuario_id, spotify_id, titulo, 500)
          /\ UNCHANGED curtidas
     ELSE /\ likeOp' = LikeOp("like", usuario_id, spotify_id, titulo, 200)
          /\ curtidas' =
               [curtidas EXCEPT ![<<usuario_id, spotify_id>>] =
                  IF @ = <<>> THEN <<titulo>> ELSE @]
  /\ UNCHANGED <<idleVars, userVars, authVars, regVars, curtidasKey>>

\* lines 251-263: DELETE FROM curtidas WHERE usuario_id = $1 AND
\* spotify_id = $2 with [userId, spotifyId]
Unlike(spotifyId, userId, dbOk) ==
  /\ likeOp.n < MaxLikeOps
  /\ IF ~dbOk
     THEN /\ likeOp' = LikeOp("unlike", userId, spotifyId, 0, 500)
          /\ UNCHANGED curtidas
     ELSE /\ likeOp' = LikeOp("unlike", userId, spotifyId, 0, 200)
          /\ curtidas' = [curtidas EXCEPT ![<<userId, spotifyId>>] = <<>>]
  /\ UNCHANGED <<idleVars, userVars, authVars, regVars, curtidasKey>>

NextLikes ==
  \/ \E usuario_id \in LikeUsers, spotify_id \in LikeSongs,
        titulo \in LikeTitles, dbOk \in BOOLEAN :
       Like(usuario_id, spotify_id, titulo, dbOk)
  \/ \E spotifyId \in LikeSongs, userId \in LikeUsers, dbOk \in BOOLEAN :
       Unlike(spotifyId, userId, dbOk)

SpecLikes == InitLikes /\ [][NextLikes]_vars

LikedPair(op) == <<op.usuario_id, op.spotify_id>>

\* C29: the table never holds two rows for one (usuario_id, spotify_id);
\* a like of a pair that has a row changes no row, a like of a pair without
\* a row that is answered 200 stores exactly its row, an unlike answered 200
\* leaves the pair without a row, and no like or unlike changes the rows of
\* another pair.
C29_OneRowPerPair ==
  /\ [](\A pair \in LikePairs : Len(curtidas[pair]) <= 1)
  /\ [][likeOp'.n # likeOp.n =>
          /\ \A pair \in LikePairs \ {LikedPair(likeOp')} :
               curtidas'[pair] = curtidas[pair]
          /\ (likeOp'.op = "like" /\ curtidas[LikedPair(likeOp')] # <<>>) =>
               curtidas' = curtidas
          /\ (likeOp'.op = "like" /\ likeOp'.status = 200
                /\ curtidas[LikedPair(likeOp')] = <<>>) =>
               curtidas'[LikedPair(likeOp')] = <<likeOp'.titulo>>
          /\ (likeOp'.op = "unlike" /\ likeOp'.status = 200) =>
               curtidas'[LikedPair(likeOp')] = <<>>
          /\ likeOp'.status # 200 => curtidas' = curtidas]_vars

\* a pair liked before has been liked again, with another titulo, while
\* another pair had a row too: the first row is the one stored
C29_Witness ==
  /\ likeOp.op = "like"
  /\ likeOp.status = 200
  /\ likeOp.n = MaxLikeOps
  /\ curtidas[LikedPair(likeOp)] # <<>>
  /\ curtidas[LikedPair(likeOp)][1] # likeOp.titulo
  /\ \E pair \in LikePairs \ {LikedPair(likeOp)} : curtidas[pair] # <<>>

\* ============================================================= register
\* part_000, POST /register.  The existence check and the INSERT are two
\* statements separated by awaits and share no transaction, so other
\* requests run between them.  The schema of usuarios is not part of the
\* program: usuariosUnique tells whether it rejects a second row with the
\* same email.  regReq[p].dbOk records whether the database executed the
\* last statement of the request (FALSE when pool.query rejected for a
\* reason of its own).

InitRegister ==
  /\ ServerIdle
  /\ FilterIdle
  /\ SelectIdle
  /\ AuthIdle
  /\ LikesIdle
  /\ RegIdle
  /\ usuarios = <<>>
  /\ usuariosUnique \in BOOLEAN

\* SELECT * FROM usuarios WHERE email = $1, line 18
SelectByEmail(email) == { k \in DOMAIN usuarios : usuarios[k].email = email }

RegResponse(status, body) == [status |-> status, body |-> body]

RegisterSent(p, status, body) ==
  /\ regPc' = [regPc EXCEPT ![p] = "sent"]
  /\ regRes' = [regRes EXCEPT ![p] = RegResponse(status, body)]

\* lines 10-18: the request arrives; with all fields present the existence
\* check is sent
RegisterRequest(p, nome, email, senha) ==
  /\ regPc[p] = "idle"
  /\ regReq' = [regReq EXCEPT ![p] =
                  [nome |-> nome, email |-> email, senha |-> senha,
                   dbOk |-> TRUE]]
  /\ IF ~Truthy(nome) \/ email = <<>> \/ ~Truthy(senha)
     THEN RegisterSent(p, 400, Null)
     ELSE /\ regPc' = [regPc EXCEPT ![p] = "check"]
          /\ UNCHANGED regRes
  /\ UNCHANGED <<idleVars, userVars, authVars, likeVars>>

\* lines 18-23: the existence check is answered; without a row the password
\* is hashed and the INSERT is sent
RegisterCheck(p, dbOk) ==
  /\ regPc[p] = "check"
  /\ regReq' = [regReq EXCEPT ![p].dbOk = dbOk]
  /\ IF ~dbOk
     THEN RegisterSent(p, 500, Null)
     ELSE IF SelectByEmail(regReq[p].email) # {}
     THEN RegisterSent(p, 400, Null)
     ELSE /\ regPc' = [regPc EXCEPT ![p] = "insert"]
          /\ UNCHANGED regRes
  /\ UNCHANGED <<idleVars, userVars, authVars, likeVars>>

\* lines 24-33: the INSERT is answered; a schema with a unique email makes
\* it an error when the email has a row by now, and the catch answers 500
RegisterInsert(p, dbOk) ==
  /\ regPc[p] = "insert"
  /\ regReq' = [regReq EXCEPT ![p].dbOk = dbOk]
  /\ IF ~dbOk \/ (usuariosUnique /\ SelectByEmail(regReq[p].email) # {})
     THEN /\ RegisterSent(p, 500, Null)
          /\ UNCHANGED usuarios
     ELSE LET row == [id |-> Len(usuarios) + 1, nome |-> regReq[p].nome,
                      email |-> regReq[p].email,
                      senha |-> Hash(regReq[p].senha)]
          IN /\ usuarios' = Append(usuarios, row)
             /\ RegisterSent(p, 201, Profile(row))
  /\ UNCHANGED <<idleVars, usuariosUnique, authVars, likeVars>>

NextRegister ==
  \/ \E p \in Registrants, nome \in {Null, 11}, email \in {<<>>, <<"L">>, <<"z">>},
        senha \in {Null, 1} : RegisterRequest(p, nome, email, senha)
  \/ \E p \in Registrants, dbOk \in BOOLEAN : RegisterCheck(p, dbOk)
  \/ \E p \in Registrants, dbOk \in BOOLEAN : RegisterInsert(p, dbOk)

SpecRegister == InitRegister /\ [][NextRegister]_vars

\* C30: under every interleaving of register requests usuarios holds at
\* most one row per email, and a request that is answered while its email
\* has a row, its statement having been executed by the database, is
\* answered 400 and inserts nothing.
C30_OneRowPerEmail ==
  /\ [](\A a, b \in DOMAIN usuarios :
          usuarios[a].email = usuarios[b].email => a = b)
  /\ [][\A p \in Registrants :
          (/\ regPc[p] \in {"check", "insert"}
           /\ regPc'[p] = "sent"
           /\ regReq'[p].dbOk
           /\ SelectByEmail(regReq[p].email) # {}) =>
            (regRes'[p].status = 400 /\ usuarios' = usuarios)]_vars
====
